---------------------------- MODULE Spec2Model ----------------------------
(***************************************************************************)
(* LINE sticker editor: the sticker collection (App), the batch matting,   *)
(* the export pipeline and the touch-up session (StickerEditor) modelled   *)
(* as state machines.  One macro-task of the browser's event loop (a user  *)
(* event, or the callback that resumes an awaiting async function) is one  *)
(* action; React state read through a closure is modelled by the value     *)
(* captured when the closure was created.                                  *)
(***************************************************************************)
EXTENDS Integers, Sequences, FiniteSets, TLC

VARIABLES
    \* ---- App (collection manager) ----
    stickers,        \* useState<StickerItem[]>
    config,          \* useState<StickerPackConfig>
    gridConfig,      \* useState({rows, cols})
    editingItem,     \* useState<StickerItem | null>
    isProcessingAll, \* useState(false)
    isExporting,     \* useState(false)
    exportProgress,  \* useState(0)
    nextId,          \* ids handed out so far (Math.random ids are fresh)
    gridJobs,        \* handleGridUpload calls whose onload/crop is pending
    batch,           \* the processAll coroutine: where it awaits, its closure
    exp,             \* the handleExport coroutine: where it awaits, its closure
    resizeCalls,     \* every call of resizeToLineSpec made by handleExport
    saved,           \* what was handed to saveAs (the file-save trigger)
    notice,          \* the last alert() shown
    \* ---- StickerEditor (touch-up session) ----
    item,            \* props.item
    originalImage,   \* originalImageRef.current
    canvas,          \* the raster held by canvasRef
    mode,            \* useState(item.settings.mode)
    threshold,       \* useState(item.settings.threshold)
    activeTool,      \* useState('move')
    isDrawing,       \* useState(false)
    isPanning,       \* useState(false)
    pan,             \* useState({x: 0, y: 0})
    lastMousePos,    \* lastMousePos.current
    history,         \* useState<ImageData[]>([])
    historyIdx,      \* useState(-1)
    autoRuns,        \* applyAuto calls whose result is still pending
    pushCount,       \* number of pushHistory calls so far (names the snapshots)
    undoCount,       \* number of undos performed so far
    autoCount        \* number of matting re-runs requested so far

appVars == <<stickers, config, gridConfig, editingItem, isProcessingAll,
             isExporting, exportProgress, nextId, gridJobs, batch, exp,
             resizeCalls, saved, notice>>
sessionVars == <<item, originalImage, canvas, mode, threshold, activeTool,
                 isDrawing, isPanning, pan, lastMousePos, history, historyIdx,
                 autoRuns,
                 pushCount, undoCount, autoCount>>
vars == <<appVars, sessionVars>>

\* null, as a record so that it compares with items and images.
Null == [null |-> TRUE]

Min(a, b) == IF a < b THEN a ELSE b

(***************************************************************************)
(* Rasters.  An image is w x h pixels in row-major order, a pixel is       *)
(* (r, g, b, a) with channels 0..255.                                      *)
(***************************************************************************)
Pixel(r, g, b, a) == [r |-> r, g |-> g, b |-> b, a |-> a]
Image(w, h, px) == [w |-> w, h |-> h, px |-> px]

White == Pixel(255, 255, 255, 255)
Dark == Pixel(10, 10, 10, 255)
Clear == Pixel(0, 0, 0, 0)

\* A canvas cleared to transparent black (canvas.width = ..., clearRect).
Transparent(w, h) == Image(w, h, [i \in 1..(w * h) |-> Clear])

\* A classifier whose comparisons include the threshold itself.
MatPixelInclusive(p, m, t) ==
    LET shouldBeTransparent ==
            IF m = "white" THEN p.r >= t /\ p.g >= t /\ p.b >= t
            ELSE IF m = "black" THEN p.r <= t /\ p.g <= t /\ p.b <= t
            ELSE FALSE
    IN  IF shouldBeTransparent THEN [p EXCEPT !.a = 0] ELSE p

\* imageUtils.ts removeBackground, lines 58-67: the per-pixel classifier.
MatPixel(p, m, t) ==
    LET shouldBeTransparent ==
            IF m = "white" THEN p.r > t /\ p.g > t /\ p.b > t
            ELSE IF m = "black" THEN p.r < t /\ p.g < t /\ p.b < t
            ELSE FALSE
    IN  IF shouldBeTransparent THEN [p EXCEPT !.a = 0] ELSE p

\* imageUtils.ts removeBackground: draw, classify unless mode is 'none', encode.
RemoveBackground(image, m, t) ==
    IF m # "none"
    THEN [image EXCEPT !.px = [i \in DOMAIN image.px |-> MatPixel(image.px[i], m, t)]]
    ELSE image


(***************************************************************************)
(* Sticker items (part_000).                                               *)
(***************************************************************************)
\* part_000 line 92: the settings every new item starts with.
DefaultMode == "white"
DefaultThreshold == 240

\* A source that the browser cannot decode (img.onload never fires).
Undecodable == [undecodable |-> TRUE]

\* part_000 createStickerItem, lines 85-93.  preview stands for the image behind
\* previewUrl; processedUrl (non-null exactly when processedBlob is) is left out.
CreateStickerItem(id, preview, blob) ==
    [id |-> id,
     preview |-> preview,
     processedBlob |-> blob,
     status |-> IF blob # Null THEN "done" ELSE "pending",
     isMain |-> FALSE,
     isTab |-> FALSE,
     settings |-> [mode |-> DefaultMode, threshold |-> DefaultThreshold]]

\* part_000 lines 34-40: the App with an empty collection and nothing in flight,
\* for a pack configuration and a grid configuration.
AppState(cfg, grid) ==
    /\ stickers = <<>>
    /\ config = cfg
    /\ gridConfig = grid
    /\ editingItem = Null
    /\ isProcessingAll = FALSE
    /\ isExporting = FALSE
    /\ exportProgress = 0
    /\ nextId = 1
    /\ gridJobs = <<>>
    /\ batch = [pc |-> "idle"]
    /\ exp = [pc |-> "idle"]
    /\ resizeCalls = <<>>
    /\ saved = Null
    /\ notice = "none"

\* part_000 lines 35 and 40: the configuration the App mounts with.
AppMounted == AppState([count |-> 16, type |-> "standard"], [rows |-> 4, cols |-> 4])

(***************************************************************************)
(* Touch-up session (components/StickerEditor.tsx).                        *)
(***************************************************************************)
Modes == {"white", "black", "none"}
Tools == {"eraser", "restore", "move"}

\* A canvas element before the source image has been loaded into it.
BlankCanvas == Transparent(0, 0)

\* StickerEditor.tsx line 52 (next.length > 15) and line 55 (Math.min(prev + 1, 14)).
HistoryLimit == 15
HistoryIdxCap == 14

\* Array.prototype.slice(0, n) for n >= 0.
\* A pointer position or an offset, in CSS pixels.
Point(x, y) == [x |-> x, y |-> y]

Slice0(s, n) == SubSeq(s, 1, Min(n, Len(s)))

\* StickerEditor.tsx pushHistory, lines 50-54: the setHistory updater.  idx is
\* the historyIdx the callback closed over, prev the state at update time.
PushHistory(prev, idx, data) ==
    LET next == Slice0(prev, idx + 1)
        kept == IF Len(next) > HistoryLimit THEN Tail(next) ELSE next
    IN  Append(kept, data)

\* StickerEditor.tsx pushHistory, line 55: the setHistoryIdx updater.
PushHistoryIdx(prev) == Min(prev + 1, HistoryIdxCap)

\* ctx.getImageData of the whole canvas: a new ImageData object, named by seq.
Snapshot(image, seq) == [data |-> image, seq |-> seq]

\* StickerEditor.tsx draw, lines 93-105, on the pixels the brush circle covers.
Draw(cv, tool, orig, hit) ==
    IF tool = "eraser"
    THEN [cv EXCEPT !.px = [i \in DOMAIN cv.px |->
                               IF i \in hit THEN Clear ELSE cv.px[i]]]
    ELSE IF tool = "restore" /\ orig # Null
    THEN [cv EXCEPT !.px = [i \in DOMAIN cv.px |->
                               IF i \in hit THEN orig.px[i] ELSE cv.px[i]]]
    ELSE cv

\* An applyAuto call: its arguments and the historyIdx its pushHistory closed over.
AutoRun(m, t, idx) == [m |-> m, t |-> t, idx |-> idx]

RemoveAt(s, k) == [i \in 1..(Len(s) - 1) |-> IF i < k THEN s[i] ELSE s[i + 1]]

\* State of a freshly mounted StickerEditor, lines 17-28.
SessionMounted(it) ==
    /\ item = it
    /\ originalImage = Null
    /\ canvas = BlankCanvas
    /\ mode = it.settings.mode
    /\ threshold = it.settings.threshold
    /\ activeTool = "move"
    /\ isDrawing = FALSE
    /\ isPanning = FALSE
    /\ pan = Point(0, 0)
    /\ lastMousePos = Point(0, 0)
    /\ history = <<>>
    /\ historyIdx = -1
    /\ autoRuns = <<>>
    /\ pushCount = 0
    /\ undoCount = 0
    /\ autoCount = 0

\* No editor mounted.
SessionClosed ==
    /\ item = Null
    /\ originalImage = Null
    /\ canvas = BlankCanvas
    /\ mode = DefaultMode
    /\ threshold = DefaultThreshold
    /\ activeTool = "move"
    /\ isDrawing = FALSE
    /\ isPanning = FALSE
    /\ pan = Point(0, 0)
    /\ lastMousePos = Point(0, 0)
    /\ history = <<>>
    /\ historyIdx = -1
    /\ autoRuns = <<>>
    /\ pushCount = 0
    /\ undoCount = 0
    /\ autoCount = 0

\* StickerEditor.tsx lines 31-42: the source image finishes loading.  The effect
\* ran in the first render, so applyAuto gets that render's mode, threshold and
\* pushHistory (historyIdx = -1).
EditorImageLoaded ==
    /\ item # Null
    /\ originalImage = Null
    /\ item.preview # Undecodable
    /\ originalImage' = item.preview
    /\ canvas' = Transparent(item.preview.w, item.preview.h)
    /\ autoRuns' = Append(autoRuns, AutoRun(item.settings.mode, item.settings.threshold, -1))
    /\ UNCHANGED <<item, mode, threshold, activeTool, isDrawing, isPanning, pan, lastMousePos,
                   history, historyIdx, pushCount, undoCount, autoCount>>
    /\ UNCHANGED appVars

\* StickerEditor.tsx line 190: a mode button is clicked.
ModeClick(m) ==
    /\ item # Null
    /\ mode' = m
    /\ IF originalImage # Null
       THEN /\ autoRuns' = Append(autoRuns, AutoRun(m, threshold, historyIdx))
            /\ autoCount' = autoCount + 1
       ELSE UNCHANGED <<autoRuns, autoCount>>
    /\ UNCHANGED <<item, originalImage, canvas, threshold, activeTool, isDrawing,
                   isPanning, pan, lastMousePos, history, historyIdx, pushCount, undoCount>>
    /\ UNCHANGED appVars

\* StickerEditor.tsx lines 205-209: the threshold slider moves (shown unless mode is 'none').
ThresholdChange(val) ==
    /\ item # Null
    /\ mode # "none"
    /\ threshold' = val
    /\ IF originalImage # Null
       THEN /\ autoRuns' = Append(autoRuns, AutoRun(mode, val, historyIdx))
            /\ autoCount' = autoCount + 1
       ELSE UNCHANGED <<autoRuns, autoCount>>
    /\ UNCHANGED <<item, originalImage, canvas, mode, activeTool, isDrawing,
                   isPanning, pan, lastMousePos, history, historyIdx, pushCount, undoCount>>
    /\ UNCHANGED appVars

\* An applyAuto that mats what is on the canvas instead of the original image.
AutoCompleteFromCanvas(k) ==
    /\ k \in 1..Len(autoRuns)
    /\ LET run == autoRuns[k]
           drawn == RemoveBackground(canvas, run.m, run.t)
       IN  /\ canvas' = drawn
           /\ history' = PushHistory(history, run.idx, Snapshot(drawn, pushCount + 1))
           /\ historyIdx' = PushHistoryIdx(historyIdx)
    /\ pushCount' = pushCount + 1
    /\ autoRuns' = RemoveAt(autoRuns, k)
    /\ UNCHANGED <<item, originalImage, mode, threshold, activeTool, isDrawing,
                   isPanning, pan, lastMousePos, undoCount, autoCount>>
    /\ UNCHANGED appVars

\* StickerEditor.tsx applyAuto, lines 59-70: the matted image has been encoded and
\* decoded again; it replaces the canvas and a snapshot is pushed.
AutoComplete(k) ==
    /\ k \in 1..Len(autoRuns)
    /\ LET run == autoRuns[k]
           drawn == RemoveBackground(originalImage, run.m, run.t)
       IN  /\ canvas' = drawn
           /\ history' = PushHistory(history, run.idx, Snapshot(drawn, pushCount + 1))
           /\ historyIdx' = PushHistoryIdx(historyIdx)
    /\ pushCount' = pushCount + 1
    /\ autoRuns' = RemoveAt(autoRuns, k)
    /\ UNCHANGED <<item, originalImage, mode, threshold, activeTool, isDrawing,
                   isPanning, pan, lastMousePos, undoCount, autoCount>>
    /\ UNCHANGED appVars

\* StickerEditor.tsx lines 223-242: a tool button is clicked.
SetActiveTool(t) ==
    /\ item # Null
    /\ activeTool' = t
    /\ UNCHANGED <<item, originalImage, canvas, mode, threshold, isDrawing, isPanning, pan, lastMousePos,
                   history, historyIdx, autoRuns, pushCount, undoCount, autoCount>>
    /\ UNCHANGED appVars

\* StickerEditor.tsx handlePointerDown, lines 73-81.  client is the pointer
\* position of the event, hit the pixels its brush circle covers.
HandlePointerDown(button, altKey, client, hit) ==
    /\ item # Null
    /\ IF activeTool = "move" \/ button = 1 \/ altKey
       THEN /\ isPanning' = TRUE
            /\ lastMousePos' = client
            /\ UNCHANGED <<isDrawing, canvas>>
       ELSE /\ isDrawing' = TRUE
            /\ canvas' = Draw(canvas, activeTool, originalImage, hit)
            /\ UNCHANGED <<isPanning, lastMousePos>>
    /\ UNCHANGED <<item, originalImage, mode, threshold, activeTool, pan, history,
                   historyIdx, autoRuns, pushCount, undoCount, autoCount>>
    /\ UNCHANGED appVars

\* StickerEditor.tsx handleMove, lines 109-118, and the draw it calls.
HandleMove(client, hit) ==
    /\ item # Null
    /\ IF isPanning
       THEN LET dx == client.x - lastMousePos.x
                dy == client.y - lastMousePos.y
            IN  /\ pan' = Point(pan.x + dx, pan.y + dy)
                /\ lastMousePos' = client
                /\ UNCHANGED canvas
       ELSE IF isDrawing
       THEN /\ canvas' = Draw(canvas, activeTool, originalImage, hit)
            /\ UNCHANGED <<pan, lastMousePos>>
       ELSE UNCHANGED <<canvas, pan, lastMousePos>>
    /\ UNCHANGED <<item, originalImage, mode, threshold, activeTool, isDrawing,
                   isPanning, history, historyIdx, autoRuns, pushCount, undoCount,
                   autoCount>>
    /\ UNCHANGED appVars

\* A pointer-up that commits a snapshot whichever gesture it ends.
HandleUpAlwaysPushing ==
    /\ item # Null
    /\ isDrawing \/ isPanning
    /\ history' = PushHistory(history, historyIdx, Snapshot(canvas, pushCount + 1))
    /\ historyIdx' = PushHistoryIdx(historyIdx)
    /\ pushCount' = pushCount + 1
    /\ isDrawing' = FALSE
    /\ isPanning' = FALSE
    /\ UNCHANGED <<item, originalImage, canvas, mode, threshold, activeTool, pan,
                   lastMousePos, autoRuns, undoCount, autoCount>>
    /\ UNCHANGED appVars

\* StickerEditor.tsx handleUp, lines 119-123.  The effect re-subscribes after
\* every render, so its pushHistory closes over the current historyIdx.
HandleUp ==
    /\ item # Null
    /\ isDrawing \/ isPanning
    /\ IF isDrawing
       THEN /\ history' = PushHistory(history, historyIdx, Snapshot(canvas, pushCount + 1))
            /\ historyIdx' = PushHistoryIdx(historyIdx)
            /\ pushCount' = pushCount + 1
       ELSE UNCHANGED <<history, historyIdx, pushCount>>
    /\ isDrawing' = FALSE
    /\ isPanning' = FALSE
    /\ UNCHANGED <<item, originalImage, canvas, mode, threshold, activeTool, pan,
                   lastMousePos, autoRuns, undoCount, autoCount>>
    /\ UNCHANGED appVars

\* An undo that tests historyIdx >= 0 and steps back without a snapshot to put.
HandleUndoBelowZero ==
    /\ item # Null
    /\ IF historyIdx >= 0
       THEN /\ historyIdx' = historyIdx - 1
            /\ canvas' = IF historyIdx \in DOMAIN history
                         THEN history[historyIdx].data ELSE canvas
            /\ undoCount' = undoCount + 1
       ELSE UNCHANGED <<canvas, historyIdx, undoCount>>
    /\ UNCHANGED <<item, originalImage, mode, threshold, activeTool, isDrawing,
                   isPanning, pan, lastMousePos, history, autoRuns, pushCount, autoCount>>
    /\ UNCHANGED appVars

\* StickerEditor.tsx handleUndo, lines 132-142 (its button, line 261, is disabled
\* while historyIdx <= 0).  With historyIdx <= 0 the handler does nothing;
\* putImageData throws on an index that holds no snapshot, and then nothing is
\* updated either.
HandleUndo ==
    /\ item # Null
    /\ IF historyIdx > 0 /\ historyIdx \in DOMAIN history
       THEN LET prevIdx == historyIdx - 1
            IN  /\ canvas' = history[prevIdx + 1].data
                /\ historyIdx' = prevIdx
                /\ undoCount' = undoCount + 1
       ELSE UNCHANGED <<canvas, historyIdx, undoCount>>
    /\ UNCHANGED <<item, originalImage, mode, threshold, activeTool, isDrawing,
                   isPanning, pan, lastMousePos, history, autoRuns, pushCount, autoCount>>
    /\ UNCHANGED appVars


(***************************************************************************)
(* The sticker collection (part_000, App).                                 *)
(***************************************************************************)
Ids(list) == {list[i].id : i \in 1..Len(list)}

\* part_000 handleFileUpload, lines 58-63: one pending item per selected file.
HandleFileUpload(files) ==
    /\ editingItem = Null
    /\ stickers' = stickers \o [i \in 1..Len(files) |->
                                  CreateStickerItem(nextId + i - 1, files[i], Null)]
    /\ nextId' = nextId + Len(files)
    /\ UNCHANGED <<config, gridConfig, editingItem, isProcessingAll, isExporting,
                   exportProgress, gridJobs, batch, exp, resizeCalls, saved, notice>>
    /\ UNCHANGED sessionVars

\* imageUtils.ts cropImageGrid, lines 18-33, for cell (r, c): canvas.width and
\* canvas.height keep the whole part of cellWidth and cellHeight; the cell is cut
\* at (c*cellWidth, r*cellHeight) and a canvas pixel holds the source pixel under
\* its centre (the browser's smoothing of cuts that fall between pixels is not
\* modelled); a canvas without pixels encodes to null.
CropCell(image, r, c, rows, cols) ==
    LET w == image.w \div cols
        h == image.h \div rows
        SourceX(i) == (2 * c * image.w + (2 * i + 1) * cols) \div (2 * cols)
        SourceY(j) == (2 * r * image.h + (2 * j + 1) * rows) \div (2 * rows)
    IN  IF w = 0 \/ h = 0 THEN Null
        ELSE Image(w, h,
                   [k \in 1..(w * h) |->
                       image.px[SourceY((k - 1) \div w) * image.w
                                + SourceX((k - 1) % w) + 1]])

\* The outcomes of getContext('2d') for n canvases.
Contexts(n) == [1..n -> BOOLEAN]

IsCut(cell) == cell.ctx

\* imageUtils.ts cropImageGrid, lines 12-36: the cells in row-major order; a cell
\* whose canvas gives no context is skipped (line 22).
CropImageGrid(image, rows, cols, ctx) ==
    LET cells == [n \in 1..(rows * cols) |->
                     [ctx |-> ctx[n],
                      blob |-> CropCell(image, (n - 1) \div cols, (n - 1) % cols,
                                        rows, cols)]]
        cut == SelectSeq(cells, IsCut)
    IN  [n \in 1..Len(cut) |-> cut[n].blob]

\* part_000 handleGridUpload, lines 65-68 and 81-82: the handler returns with the
\* image still loading; onload closes over this render's stickers and gridConfig.
HandleGridUpload(image) ==
    /\ editingItem = Null
    /\ gridJobs' = Append(gridJobs, [image |-> image,
                                     wasEmpty |-> Len(stickers) = 0,
                                     rows |-> gridConfig.rows,
                                     cols |-> gridConfig.cols])
    /\ UNCHANGED <<stickers, config, gridConfig, editingItem, isProcessingAll,
                   isExporting, exportProgress, nextId, batch, exp, resizeCalls,
                   saved, notice>>
    /\ UNCHANGED sessionVars

\* part_000 handleGridUpload, lines 69-80: the image has loaded and every cell
\* has been cut and encoded; the new items are appended to the current list.
\* URL.createObjectURL throws on a null blob (line 72): the handler then ends
\* without adding anything.
GridUploadDone(k, ctx) ==
    /\ k \in 1..Len(gridJobs)
    /\ LET job == gridJobs[k]
           blobs == CropImageGrid(job.image, job.rows, job.cols, ctx)
           newItems == [idx \in 1..Len(blobs) |->
                           LET it == CreateStickerItem(nextId + idx - 1, blobs[idx], blobs[idx])
                           IN  IF job.wasEmpty /\ idx = 1
                               THEN [it EXCEPT !.isMain = TRUE, !.isTab = TRUE]
                               ELSE it]
       IN  IF \E idx \in 1..Len(blobs) : blobs[idx] = Null
           THEN UNCHANGED <<stickers, nextId>>
           ELSE /\ stickers' = stickers \o newItems
                /\ nextId' = nextId + Len(blobs)
    /\ gridJobs' = RemoveAt(gridJobs, k)
    /\ UNCHANGED <<config, gridConfig, editingItem, isProcessingAll, isExporting,
                   exportProgress, batch, exp, resizeCalls, saved, notice>>
    /\ UNCHANGED sessionVars

\* A setRole that sets the flag of the chosen item and leaves the other items'
\* flags as they are.
SetRoleItemKeepingOthers(s, id, role) ==
    IF role = "main" THEN [s EXCEPT !.isMain = (s.id = id) \/ s.isMain]
    ELSE IF role = "tab" THEN [s EXCEPT !.isTab = (s.id = id) \/ s.isTab]
    ELSE s

\* part_000 setRole, lines 127-133.
SetRoleItem(s, id, role) ==
    IF role = "main" THEN [s EXCEPT !.isMain = (s.id = id)]
    ELSE IF role = "tab" THEN [s EXCEPT !.isTab = (s.id = id)]
    ELSE s

SetRole(id, role) ==
    /\ editingItem = Null
    /\ id \in Ids(stickers)
    /\ LET F(s) == SetRoleItem(s, id, role)
       IN  stickers' = [i \in 1..Len(stickers) |-> F(stickers[i])]
    /\ UNCHANGED <<config, gridConfig, editingItem, isProcessingAll, isExporting,
                   exportProgress, nextId, gridJobs, batch, exp, resizeCalls,
                   saved, notice>>
    /\ UNCHANGED sessionVars

\* part_000 line 307: the item's remove button.
RemoveItem(id) ==
    /\ editingItem = Null
    /\ id \in Ids(stickers)
    /\ LET P(it) == it.id # id
       IN  stickers' = SelectSeq(stickers, P)
    /\ UNCHANGED <<config, gridConfig, editingItem, isProcessingAll, isExporting,
                   exportProgress, nextId, gridJobs, batch, exp, resizeCalls,
                   saved, notice>>
    /\ UNCHANGED sessionVars

\* part_000 processOne, lines 98, 108-113 and 115: the three list updates.
MarkProcessing(list, id) ==
    LET F(s) == IF s.id = id THEN [s EXCEPT !.status = "processing"] ELSE s
    IN  [i \in 1..Len(list) |-> F(list[i])]

MarkDone(list, id, blob) ==
    LET F(s) == IF s.id = id
                THEN [s EXCEPT !.status = "done", !.processedBlob = blob]
                ELSE s
    IN  [i \in 1..Len(list) |-> F(list[i])]

\* A catch branch that puts the item back to 'pending'.
MarkErrorAsPending(list, id) ==
    LET F(s) == IF s.id = id THEN [s EXCEPT !.status = "pending"] ELSE s
    IN  [i \in 1..Len(list) |-> F(list[i])]

MarkError(list, id) ==
    LET F(s) == IF s.id = id THEN [s EXCEPT !.status = "error"] ELSE s
    IN  [i \in 1..Len(list) |-> F(list[i])]

\* part_000 processAll, lines 121-123: the first item at or after position from
\* that is not done in the list processAll closed over (0: none is left).
RECURSIVE NextNotDone(_, _)
NextNotDone(snap, from) ==
    IF from > Len(snap) THEN 0
    ELSE IF snap[from].status # "done" THEN from
    ELSE NextNotDone(snap, from + 1)

\* A loop that starts every remaining non-done item at once instead of awaiting
\* each one.
BatchContinueAllAtOnce(list, snap, from) ==
    LET pos == NextNotDone(snap, from)
        started == {snap[j].id : j \in {k \in from..Len(snap) : snap[k].status # "done"}}
    IN  IF pos = 0
        THEN /\ stickers' = list
             /\ batch' = [pc |-> "idle"]
             /\ isProcessingAll' = FALSE
        ELSE /\ stickers' = [i \in 1..Len(list) |->
                                IF list[i].id \in started
                                THEN [list[i] EXCEPT !.status = "processing"]
                                ELSE list[i]]
             /\ batch' = [pc |-> "load", snap |-> snap, pos |-> pos]
             /\ isProcessingAll' = TRUE

\* part_000 processAll, lines 121-124, run from position from up to the next
\* await: either processOne marks the next item and waits for its image (lines
\* 96-105), or the loop is over and isProcessingAll is reset.
BatchContinue(list, snap, from) ==
    LET pos == NextNotDone(snap, from)
    IN  IF pos = 0
        THEN /\ stickers' = list
             /\ batch' = [pc |-> "idle"]
             /\ isProcessingAll' = FALSE
        ELSE /\ stickers' = MarkProcessing(list, snap[pos].id)
             /\ batch' = [pc |-> "load", snap |-> snap, pos |-> pos]
             /\ isProcessingAll' = TRUE

\* part_000 processAll, lines 119-122, up to the first await (button: line 281).
ProcessAll ==
    /\ editingItem = Null
    /\ ~isProcessingAll
    /\ Len(stickers) > 0
    /\ BatchContinue(stickers, stickers, 1)
    /\ UNCHANGED <<config, gridConfig, editingItem, isExporting, exportProgress,
                   nextId, gridJobs, exp, resizeCalls, saved, notice>>
    /\ UNCHANGED sessionVars

\* part_000 processOne, lines 102-106: img.onload resolves the promise and
\* removeBackground starts.  With no 2d context it throws, the catch marks the
\* item 'error' (line 115) and the loop goes on; otherwise it awaits toBlob.
BatchImageLoaded(ctxOk) ==
    /\ batch.pc = "load"
    /\ batch.snap[batch.pos].preview # Undecodable
    /\ IF ctxOk
       THEN /\ batch' = [batch EXCEPT !.pc = "blob"]
            /\ UNCHANGED <<stickers, isProcessingAll>>
       ELSE BatchContinue(MarkError(stickers, batch.snap[batch.pos].id),
                          batch.snap, batch.pos + 1)
    /\ UNCHANGED <<config, gridConfig, editingItem, isExporting, exportProgress,
                   nextId, gridJobs, exp, resizeCalls, saved, notice>>
    /\ UNCHANGED sessionVars

\* part_000 processOne, lines 102-105: the image fails to decode.  Only onload
\* is set, so the promise never settles: nothing after the await ever runs.
BatchImageFailed ==
    /\ batch.pc = "load"
    /\ batch.snap[batch.pos].preview = Undecodable
    /\ batch' = [batch EXCEPT !.pc = "hung"]
    /\ UNCHANGED <<stickers, config, gridConfig, editingItem, isProcessingAll,
                   isExporting, exportProgress, nextId, gridJobs, exp, resizeCalls,
                   saved, notice>>
    /\ UNCHANGED sessionVars

\* part_000 processOne, lines 106-113: the matted blob is ready; the item is
\* marked 'done' and the loop goes on.  The image and the settings are those of
\* the item processAll closed over.
BatchBlobReady ==
    /\ batch.pc = "blob"
    /\ LET it == batch.snap[batch.pos]
           blob == RemoveBackground(it.preview, it.settings.mode, it.settings.threshold)
       IN  BatchContinue(MarkDone(stickers, it.id, blob), batch.snap, batch.pos + 1)
    /\ UNCHANGED <<config, gridConfig, editingItem, isExporting, exportProgress,
                   nextId, gridJobs, exp, resizeCalls, saved, notice>>
    /\ UNCHANGED sessionVars

\* part_000 line 302: the item's touch-up button mounts the editor on it.
OpenEditor(id) ==
    /\ editingItem = Null
    /\ \E i \in 1..Len(stickers) :
          /\ stickers[i].id = id
          /\ editingItem' = stickers[i]
    /\ UNCHANGED <<stickers, config, gridConfig, isProcessingAll, isExporting,
                   exportProgress, nextId, gridJobs, batch, exp, resizeCalls,
                   saved, notice>>
    /\ UNCHANGED sessionVars

\* An onSave that stores the raster and the status but not the settings.
SaveItemKeepingSettings(s, id, blob, m, t) ==
    IF s.id = id
    THEN [s EXCEPT !.processedBlob = blob, !.status = "done"]
    ELSE s

\* part_000 onSave, lines 324-330.
SaveItem(s, id, blob, m, t) ==
    IF s.id = id
    THEN [s EXCEPT !.processedBlob = blob, !.status = "done",
                   !.settings = [mode |-> m, threshold |-> t]]
    ELSE s

OnSave(blob, m, t) ==
    /\ editingItem # Null
    /\ LET F(s) == SaveItem(s, editingItem.id, blob, m, t)
       IN  stickers' = [i \in 1..Len(stickers) |-> F(stickers[i])]
    /\ editingItem' = Null
    /\ UNCHANGED <<config, gridConfig, isProcessingAll, isExporting, exportProgress,
                   nextId, gridJobs, batch, exp, resizeCalls, saved, notice>>
    /\ UNCHANGED sessionVars

\* part_000 line 323: onClose.
OnClose ==
    /\ editingItem # Null
    /\ editingItem' = Null
    /\ UNCHANGED <<stickers, config, gridConfig, isProcessingAll, isExporting,
                   exportProgress, nextId, gridJobs, batch, exp, resizeCalls,
                   saved, notice>>
    /\ UNCHANGED sessionVars

\* What a session on item it can hand to onSave: the automatic result for the
\* settings it emits, or a canvas erased by hand (a blank canvas when the source
\* never loaded).
SessionOutputs(it, m, t) ==
    IF it.preview = Undecodable THEN {BlankCanvas}
    ELSE {RemoveBackground(it.preview, m, t), Transparent(it.preview.w, it.preview.h)}

(***************************************************************************)
(* The editor as the App mounts it (part_000 lines 302 and 322-332 with    *)
(* StickerEditor.tsx): opening mounts a fresh session on the item, saving  *)
(* and closing unmount it.                                                 *)
(***************************************************************************)
\* The session's state is discarded with the component.
SessionUnmounted ==
    /\ item' = Null
    /\ originalImage' = Null
    /\ canvas' = BlankCanvas
    /\ mode' = DefaultMode
    /\ threshold' = DefaultThreshold
    /\ activeTool' = "move"
    /\ isDrawing' = FALSE
    /\ isPanning' = FALSE
    /\ pan' = Point(0, 0)
    /\ lastMousePos' = Point(0, 0)
    /\ history' = <<>>
    /\ historyIdx' = -1
    /\ autoRuns' = <<>>
    /\ pushCount' = 0
    /\ undoCount' = 0
    /\ autoCount' = 0

\* part_000 line 302 and StickerEditor.tsx lines 13-28: the touch-up button sets
\* editingItem and the StickerEditor mounts with its initial state.
MountEditor(id) ==
    /\ editingItem = Null
    /\ \E i \in 1..Len(stickers) :
          /\ stickers[i].id = id
          /\ editingItem' = stickers[i]
          /\ item' = stickers[i]
          /\ mode' = stickers[i].settings.mode
          /\ threshold' = stickers[i].settings.threshold
    /\ originalImage' = Null
    /\ canvas' = BlankCanvas
    /\ activeTool' = "move"
    /\ isDrawing' = FALSE
    /\ isPanning' = FALSE
    /\ pan' = Point(0, 0)
    /\ lastMousePos' = Point(0, 0)
    /\ history' = <<>>
    /\ historyIdx' = -1
    /\ autoRuns' = <<>>
    /\ pushCount' = 0
    /\ undoCount' = 0
    /\ autoCount' = 0
    /\ UNCHANGED <<stickers, config, gridConfig, isProcessingAll, isExporting,
                   exportProgress, nextId, gridJobs, batch, exp, resizeCalls,
                   saved, notice>>

\* StickerEditor.tsx handleSave, lines 144-148, with part_000 onSave, lines
\* 324-330: the canvas is encoded as it is at the click and handed to onSave with
\* the mode and threshold of that render; onSave updates the item and unmounts
\* the editor.
HandleSave ==
    /\ item # Null
    /\ editingItem # Null
    /\ LET F(s) == SaveItem(s, editingItem.id, canvas, mode, threshold)
       IN  stickers' = [i \in 1..Len(stickers) |-> F(stickers[i])]
    /\ editingItem' = Null
    /\ SessionUnmounted
    /\ UNCHANGED <<config, gridConfig, isProcessingAll, isExporting, exportProgress,
                   nextId, gridJobs, batch, exp, resizeCalls, saved, notice>>

\* part_000 line 323 (StickerEditor.tsx lines 177 and 272): close without saving.
CloseEditor ==
    /\ item # Null
    /\ editingItem # Null
    /\ editingItem' = Null
    /\ SessionUnmounted
    /\ UNCHANGED <<stickers, config, gridConfig, isProcessingAll, isExporting,
                   exportProgress, nextId, gridJobs, batch, exp, resizeCalls,
                   saved, notice>>

(***************************************************************************)
(* Export (part_000 handleExport, imageUtils.ts resizeToLineSpec).         *)
(***************************************************************************)
\* Array.prototype.find, given the items that satisfy the predicate in
\* collection order: the first of them, or null.
FindItem(matching) == IF matching = <<>> THEN Null ELSE matching[1]

\* part_000 lines 142-143: the predicates of the two find calls.
IsMainOf(s) == s.isMain
IsTabOf(s) == s.isTab

\* A filter that lets every item through.
AnySticker(s) == TRUE

\* part_000 line 136.
IsDoneSticker(s) == s.status = "done" /\ s.processedBlob # Null
DoneStickers(list) == SelectSeq(list, IsDoneSticker)

\* part_000 lines 142-143: a || b on items.
OrElse(a, b) == IF a # Null THEN a ELSE b

\* A file number without padding.
PadStartNone(n) == ToString(n)

\* part_000 line 155: String.prototype.padStart(2, '0') of a positive integer.
PadStart2(n) == IF Len(ToString(n)) < 2 THEN "0" \o ToString(n) ELSE ToString(n)
StickerFileName(i) == PadStart2(i + 1) \o ".png"

\* part_000 lines 149-150 and 161: the target sizes.
TargetW(type) == IF type = "fullscreen" THEN 480 ELSE 370
\* A sticker height that follows the width.
TargetHAsWidth(type) == TargetW(type)
TargetH(type) == IF type = "fullscreen" THEN 480 ELSE 320
MainSize(type) == IF type = "fullscreen" THEN 480 ELSE 240
TabW == 96
TabH == 74

\* JSZip folder.file(name, data): one entry per name.
ZipFile(zip, name, data) ==
    IF \E k \in 1..Len(zip) : zip[k].name = name
    THEN [k \in 1..Len(zip) |->
             IF zip[k].name = name THEN [name |-> name, data |-> data] ELSE zip[k]]
    ELSE Append(zip, [name |-> name, data |-> data])

(***************************************************************************)
(* JavaScript numbers are IEEE-754 doubles: a division and a multiplication *)
(* each round their exact result to 53 significant bits, ties to even.     *)
(* A double x > 0 is written [bits, frac] with x = bits / 2^frac, bits a    *)
(* natural as a bit sequence, least significant bit first.  Long products  *)
(* and quotients are computed ten bits (one limb) at a time.                *)
(***************************************************************************)
SignificandBits == 53

\* The limbs (least significant first) of a bit sequence, and back.
LimbsOfBits(a) ==
    LET B(j) == IF j <= Len(a) THEN a[j] ELSE 0
        Limb(o) == B(o + 1) + 2 * B(o + 2) + 4 * B(o + 3) + 8 * B(o + 4)
                   + 16 * B(o + 5) + 32 * B(o + 6) + 64 * B(o + 7)
                   + 128 * B(o + 8) + 256 * B(o + 9) + 512 * B(o + 10)
    IN  [i \in 1..((Len(a) + 9) \div 10) |-> Limb(10 * (i - 1))]

BitsOfLimbs(l) ==
    [j \in 1..(10 * Len(l)) |-> (l[(j - 1) \div 10 + 1] \div 2^((j - 1) % 10)) % 2]

\* A bit sequence without its leading (most significant) zeros.
Trim(a) ==
    LET ones == {j \in 1..Len(a) : a[j] = 1}
    IN  IF ones = {} THEN <<>>
        ELSE SubSeq(a, 1, CHOOSE j \in ones : \A i \in ones : i <= j)

\* a + 1.
Increment(a) ==
    LET zeros == {j \in 1..Len(a) : a[j] = 0}
    IN  IF zeros = {} THEN [j \in 1..(Len(a) + 1) |-> IF j = Len(a) + 1 THEN 1 ELSE 0]
        ELSE LET low == CHOOSE j \in zeros : \A i \in zeros : j <= i
             IN  [j \in 1..Len(a) |-> IF j < low THEN 0 ELSE IF j = low THEN 1 ELSE a[j]]

\* l * m + c on limbs, for naturals m, c < 1024.
RECURSIVE MulLimbs(_, _, _)
MulLimbs(l, m, c) ==
    IF l = <<>> THEN (IF c = 0 THEN <<>> ELSE <<c>>)
    ELSE <<(Head(l) * m + c) % 1024>>
         \o MulLimbs(Tail(l), m, (Head(l) * m + c) \div 1024)

\* Long division of r/d (0 <= r < d): the first n limbs after the binary point,
\* most significant first, and the remainder left after them.
RECURSIVE DivLimbs(_, _, _)
DivLimbs(r, d, n) ==
    IF n = 0 THEN <<>>
    ELSE <<(r * 1024) \div d>> \o DivLimbs((r * 1024) % d, d, n - 1)

RECURSIVE DivRem(_, _, _)
DivRem(r, d, n) == IF n = 0 THEN r ELSE DivRem((r * 1024) % d, d, n - 1)

\* The double k / d for integers 0 < k < d <= 64 (the quotient then starts
\* within its first six bits, and sixty bits hold the 53 kept and the guard).
Quotient(k, d) ==
    LET limbs == DivLimbs(k, d, 6)
        rem == DivRem(k, d, 6)
        Bit(p) == (limbs[(p - 1) \div 10 + 1] \div 2^(9 - ((p - 1) % 10))) % 2
        first == CHOOSE p \in 1..60 : Bit(p) = 1 /\ \A q \in 1..(p - 1) : Bit(q) = 0
        last == first + SignificandBits - 1
        sig == [i \in 1..SignificandBits |-> Bit(last + 1 - i)]
        up == /\ Bit(last + 1) = 1
              /\ (sig[1] = 1 \/ rem # 0 \/ \E p \in (last + 2)..60 : Bit(p) = 1)
    IN  [bits |-> IF up THEN Increment(sig) ELSE sig, frac |-> last]

\* The double x * m for a double x > 0 and a natural 0 < m < 1024.
Times(x, m) ==
    LET p == Trim(BitsOfLimbs(MulLimbs(LimbsOfBits(x.bits), m, 0)))
        drop == Len(p) - SignificandBits
    IN  IF drop <= 0 THEN [bits |-> p, frac |-> x.frac]
        ELSE LET kept == SubSeq(p, drop + 1, Len(p))
                 up == /\ p[drop] = 1
                       /\ (kept[1] = 1 \/ \E i \in 1..(drop - 1) : p[i] = 1)
             IN  [bits |-> IF up THEN Increment(kept) ELSE kept,
                  frac |-> x.frac - drop]

\* The natural a bit sequence of at most 30 bits stands for.
BitsNat(a) ==
    LET RECURSIVE Value(_)
        Value(j) == IF j > Len(a) THEN 0 ELSE a[j] + 2 * Value(j + 1)
    IN  Value(1)

\* Math.round of a double x > 0: the nearest integer, a half rounding up.
MathRound(x) ==
    LET whole == IF x.frac < Len(x.bits)
                 THEN BitsNat(SubSeq(x.bits, x.frac + 1, Len(x.bits))) ELSE 0
        half == x.frac >= 1 /\ x.frac <= Len(x.bits) /\ x.bits[x.frac] = 1
    IN  whole + (IF half THEN 1 ELSE 0)

\* part_000 lines 158 and 164: Math.round((k / (exportCount + 2)) * 100).
\* exportCount is at most config.count, whose largest value (line 21) is 40; the
\* values for every export are computed once.
MaxCount == 40
ProgressValues ==
    [n \in 1..MaxCount |->
        [k \in 1..(n + 1) |-> MathRound(Times(Quotient(k, n + 2), 100))]]

Progress(k, exportCount) == ProgressValues[exportCount][k]

\* A bit sequence p standing for p / 2^frac, rounded to a double.
RoundBits(p, frac) ==
    LET drop == Len(p) - SignificandBits
    IN  IF drop <= 0 THEN [bits |-> p, frac |-> frac]
        ELSE LET kept == SubSeq(p, drop + 1, Len(p))
                 up == /\ p[drop] = 1
                       /\ (kept[1] = 1 \/ \E i \in 1..(drop - 1) : p[i] = 1)
             IN  [bits |-> IF up THEN Increment(kept) ELSE kept, frac |-> frac - drop]

\* The bits of a natural v < 2048.
NatBits(v) == Trim([j \in 1..11 |-> (v \div 2^(j - 1)) % 2])

\* The double n / d for integers n, d > 0 with 1/128 <= n/d < 1024: the whole
\* part is the first limb, sixty bits follow the binary point.
Ratio(n, d) ==
    LET limbs == <<n \div d>> \o DivLimbs(n % d, d, 6)
        rem == DivRem(n % d, d, 6)
        Bit(p) == (limbs[(p - 1) \div 10 + 1] \div 2^(9 - ((p - 1) % 10))) % 2
        first == CHOOSE p \in 1..70 : Bit(p) = 1 /\ \A q \in 1..(p - 1) : Bit(q) = 0
        last == first + SignificandBits - 1
        sig == [i \in 1..SignificandBits |-> Bit(last + 1 - i)]
        up == /\ Bit(last + 1) = 1
              /\ (sig[1] = 1 \/ rem # 0 \/ \E p \in (last + 2)..70 : Bit(p) = 1)
    IN  [bits |-> IF up THEN Increment(sig) ELSE sig, frac |-> last - 10]

\* The whole part of a double 0 < x < 2^30, and whether it has a fraction.
Whole(x) ==
    IF x.frac < Len(x.bits) THEN BitsNat(SubSeq(x.bits, x.frac + 1, Len(x.bits))) ELSE 0

HasFraction(x) == \E j \in 1..Min(x.frac, Len(x.bits)) : x.bits[j] = 1

\* x > n, for a double x > 0 and a natural n.
Exceeds(x, n) == Whole(x) > n \/ (Whole(x) = n /\ HasFraction(x))

\* The double n - x for a natural n < 2048 and a double 0 < x < n.
Minus(n, x) ==
    IF ~HasFraction(x) THEN [bits |-> NatBits(n - Whole(x)), frac |-> 0]
    ELSE LET B(j) == IF j <= Len(x.bits) THEN x.bits[j] ELSE 0
             rest == Increment([j \in 1..x.frac |-> 1 - B(j)])
         IN  RoundBits(Trim(rest \o NatBits(n - Whole(x) - 1)), x.frac)

\* x / 2.
Half(x) == [bits |-> x.bits, frac |-> x.frac + 1]

\* imageUtils.ts resizeToLineSpec, line 83 (the export never passes a padding)
\* and lines 94-100: where and how large the source is drawn.  Math.min of the
\* two quotients is the quotient of the smaller ratio (rounding is monotonic).
Padding == 10
Placement(srcW, srcH, targetWidth, targetHeight) ==
    LET usableW == targetWidth - Padding * 2
        usableH == targetHeight - Padding * 2
        scale == IF usableW * srcH <= usableH * srcW
                 THEN Ratio(usableW, srcW) ELSE Ratio(usableH, srcH)
        drawW == Times(scale, srcW)
        drawH == Times(scale, srcH)
    IN  [scale |-> scale, drawW |-> drawW, drawH |-> drawH,
         x |-> Half(Minus(targetWidth, drawW)),
         y |-> Half(Minus(targetHeight, drawH))]

\* The placements of the small sources, computed once.
MaxSourceSide == 13
TargetSizes == {<<TargetW(t), TargetH(t)>> : t \in {"standard", "fullscreen"}}
               \cup {<<MainSize(t), MainSize(t)>> : t \in {"standard", "fullscreen"}}
               \cup {<<TabW, TabH>>}
Placements ==
    [c \in (1..MaxSourceSide) \X (1..MaxSourceSide) \X TargetSizes |->
        Placement(c[1], c[2], c[3][1], c[3][2])]

\* imageUtils.ts resizeToLineSpec, lines 88-90 and 105: a canvas of the target
\* size holding the source drawn into it.
ResizeToLineSpec(blob, targetWidth, targetHeight) ==
    [w |-> targetWidth, h |-> targetHeight, source |-> blob]

\* imageUtils.ts lines 94-103: where the canvas d that resizeToLineSpec made
\* holds its source.
Drawn(d) ==
    LET c == <<d.source.w, d.source.h, <<d.w, d.h>>>>
    IN  IF c \in DOMAIN Placements THEN Placements[c]
        ELSE Placement(d.source.w, d.source.h, d.w, d.h)

\* A resize that looks its item up in the collection as it is now.
ResizeJobFromCurrent(e, k) ==
    LET current == DoneStickers(stickers)
        first == IF current = <<>> THEN e.doneStickers[1] ELSE current[1]
    IN  IF k <= e.exportCount
        THEN [item |-> IF k <= Len(current) THEN current[k] ELSE e.doneStickers[k],
              name |-> StickerFileName(k - 1), w |-> e.targetW, h |-> e.targetH]
        ELSE IF k = e.exportCount + 1
        THEN [item |-> OrElse(FindItem(SelectSeq(stickers, IsMainOf)), first),
              name |-> "main.png", w |-> e.mainSize, h |-> e.mainSize]
        ELSE [item |-> OrElse(FindItem(SelectSeq(stickers, IsTabOf)), first),
              name |-> "tab.png", w |-> TabW, h |-> TabH]

\* The k-th resize of an export (k = 1..exportCount+2): lines 154-156, 162, 166.
ResizeJob(e, k) ==
    IF k <= e.exportCount
    THEN [item |-> e.doneStickers[k], name |-> StickerFileName(k - 1),
          w |-> e.targetW, h |-> e.targetH]
    ELSE IF k = e.exportCount + 1
    THEN [item |-> e.mainItem, name |-> "main.png", w |-> e.mainSize, h |-> e.mainSize]
    ELSE [item |-> e.tabItem, name |-> "tab.png", w |-> TabW, h |-> TabH]

\* part_000 handleExport, lines 136-150, up to the first await.  The handler is
\* modelled as the operation it is: the button that calls it (line 262) is
\* disabled while an export runs (the guard below) and, in the rendered page,
\* also while no item is done, which is the case line 137 answers.
HandleExport ==
    /\ editingItem = Null
    /\ ~isExporting
    /\ LET doneStickers == DoneStickers(stickers)
       IN  IF Len(doneStickers) = 0
           THEN /\ notice' = "no done items"
                /\ UNCHANGED <<isExporting, exportProgress, exp, resizeCalls, saved>>
           ELSE /\ isExporting' = TRUE
                /\ exportProgress' = 0
                /\ exp' = [pc |-> "resize",
                           doneStickers |-> doneStickers,
                           mainItem |-> OrElse(FindItem(SelectSeq(stickers, IsMainOf)), doneStickers[1]),
                           tabItem |-> OrElse(FindItem(SelectSeq(stickers, IsTabOf)), doneStickers[1]),
                           exportCount |-> Min(Len(doneStickers), config.count),
                           targetW |-> TargetW(config.type),
                           targetH |-> TargetH(config.type),
                           mainSize |-> MainSize(config.type),
                           i |-> 0,
                           zip |-> <<>>]
                /\ resizeCalls' = <<>>
                /\ saved' = Null
                /\ notice' = "none"
    /\ UNCHANGED <<stickers, config, gridConfig, editingItem, isProcessingAll, nextId,
                   gridJobs, batch>>
    /\ UNCHANGED sessionVars

\* A failed export that reports the failure and leaves the progress where it was.
ExportAbortedKeepingProgress ==
    /\ notice' = "export error"
    /\ isExporting' = FALSE
    /\ exp' = [pc |-> "idle"]
    /\ UNCHANGED <<exportProgress, saved>>

\* part_000 lines 172-177: the catch and the finally of a failed export.
ExportAborted ==
    /\ notice' = "export error"
    /\ isExporting' = FALSE
    /\ exportProgress' = 0
    /\ exp' = [pc |-> "idle"]
    /\ UNCHANGED saved

\* part_000 lines 153-168: one resizeToLineSpec call and its outcome.  A null
\* blob makes URL.createObjectURL throw, and a missing 2d context rejects
\* (imageUtils.ts line 92): the promise rejects; otherwise the file is added
\* and the progress advances.
ExportResize(ctxOk) ==
    /\ exp.pc = "resize"
    /\ LET k == exp.i + 1
           job == ResizeJob(exp, k)
           blob == job.item.processedBlob
       IN  /\ resizeCalls' = Append(resizeCalls,
                                    [item |-> job.item, w |-> job.w, h |-> job.h])
           /\ IF blob # Null /\ ctxOk
              THEN /\ exp' = [exp EXCEPT
                                !.i = k,
                                !.zip = ZipFile(exp.zip, job.name,
                                                ResizeToLineSpec(blob, job.w, job.h)),
                                !.pc = IF k = exp.exportCount + 2 THEN "archive" ELSE "resize"]
                   /\ exportProgress' = IF k = exp.exportCount + 2 THEN 100
                                        ELSE Progress(k, exp.exportCount)
                   /\ UNCHANGED <<isExporting, saved, notice>>
              ELSE ExportAborted
    /\ UNCHANGED <<stickers, config, gridConfig, editingItem, isProcessingAll, nextId,
                   gridJobs, batch>>
    /\ UNCHANGED sessionVars

\* part_000 lines 170-177: zip.generateAsync settles; on success the archive goes
\* to saveAs; either way the finally resets isExporting and the progress.
ExportArchive(ok) ==
    /\ exp.pc = "archive"
    /\ IF ok
       THEN /\ saved' = [files |-> exp.zip, exportCount |-> exp.exportCount]
            /\ isExporting' = FALSE
            /\ exportProgress' = 0
            /\ exp' = [pc |-> "idle"]
            /\ UNCHANGED notice
       ELSE ExportAborted
    /\ UNCHANGED <<stickers, config, gridConfig, editingItem, isProcessingAll, nextId,
                   gridJobs, batch, resizeCalls>>
    /\ UNCHANGED sessionVars

(***************************************************************************)
(* SpecRing: one touch-up session driven to the depth of the undo history  *)
(* (eraser strokes, matting re-runs, undos) on one-pixel source images.    *)
(***************************************************************************)
RingImages == {Image(1, 1, <<White>>), Image(1, 1, <<Dark>>)}

\* Bounds of SpecRing: snapshots pushed, undos and matting re-runs per session.
MaxPushes == 17
MaxUndos == 2

InitRing ==
    /\ AppMounted
    /\ \E img \in RingImages : SessionMounted(CreateStickerItem(1, img, Null))

NextRing ==
    \/ EditorImageLoaded
    \/ (pushCount < MaxPushes /\ \E k \in 1..Len(autoRuns) : AutoComplete(k))
    \/ SetActiveTool("eraser")
    \/ HandlePointerDown(0, FALSE, Point(0, 0), {1})
    \/ (pushCount < MaxPushes /\ HandleUp)
    \/ (undoCount < MaxUndos /\ HandleUndo)

SpecRing == InitRing /\ [][NextRing]_vars


(***************************************************************************)
(* Spec: the collection under uploads, grid uploads, removal, batch        *)
(* matting and editor saves.  SpecRoles: the collection under uploads,     *)
(* grid uploads, role assignment, removal and editor saves.  Role flags    *)
(* and processing never read each other, so each is explored on its own.   *)
(***************************************************************************)
\* Bounds: items ever created, files per upload.
MaxItems == 2
MaxFiles == 1

AppImage == Image(1, 1, <<White>>)

\* The image of a grid upload: one pixel per cell.
GridImage(rows, cols) ==
    Image(cols, rows, [i \in 1..(rows * cols) |-> IF i % 2 = 1 THEN White ELSE Dark])

\* Items created so far plus those the pending grid uploads will create.
Committed ==
    LET RECURSIVE Cells(_)
        Cells(jobs) == IF jobs = <<>> THEN 0
                       ELSE Head(jobs).rows * Head(jobs).cols + Cells(Tail(jobs))
    IN  (nextId - 1) + Cells(gridJobs)

UploadChoices ==
    UNION {[1..n -> {AppImage, Undecodable}] : n \in 1..MaxFiles}

\* The user actions and callbacks both specifications share.
Upload ==
    \E files \in UploadChoices :
       Committed + Len(files) <= MaxItems /\ HandleFileUpload(files)

GridUpload ==
    /\ Committed + gridConfig.rows * gridConfig.cols <= MaxItems
    /\ HandleGridUpload(GridImage(gridConfig.rows, gridConfig.cols))

Remove == \E id \in Ids(stickers) : RemoveItem(id)

Edit == \E id \in Ids(stickers) : OpenEditor(id)

Save ==
    /\ editingItem # Null
    /\ \E blob \in SessionOutputs(editingItem, "black", DefaultThreshold) :
          OnSave(blob, "black", DefaultThreshold)

\* The App once the user has set the grid inputs (lines 229 and 233) to 1 x 1.
Init ==
    /\ AppState([count |-> 16, type |-> "standard"], [rows |-> 1, cols |-> 1])
    /\ SessionClosed

Next ==
    \/ Upload
    \/ GridUpload
    \/ \E k \in 1..Len(gridJobs) :
          \E ctx \in Contexts(gridJobs[k].rows * gridJobs[k].cols) : GridUploadDone(k, ctx)
    \/ Remove
    \/ ProcessAll
    \/ \E ctxOk \in BOOLEAN : BatchImageLoaded(ctxOk)
    \/ BatchImageFailed
    \/ BatchBlobReady
    \/ Edit
    \/ Save
    \/ OnClose

Spec == Init /\ [][Next]_vars

\* The callbacks of a running batch: the browser delivers an enabled one
\* (a decode, a context, an encoded blob) after finitely many other events.
BatchStep ==
    \/ \E ctxOk \in BOOLEAN : BatchImageLoaded(ctxOk)
    \/ BatchImageFailed
    \/ BatchBlobReady

SpecFair == Init /\ [][Next]_vars /\ WF_vars(BatchStep)

\* The App once the user has set the grid inputs to 1 x 1 or 1 x 2.
InitRoles ==
    /\ \E cols \in {1, 2} :
          AppState([count |-> 16, type |-> "standard"], [rows |-> 1, cols |-> cols])
    /\ SessionClosed

NextRoles ==
    \/ Upload
    \/ GridUpload
    \/ \E k \in 1..Len(gridJobs) :
          \E ctx \in Contexts(gridJobs[k].rows * gridJobs[k].cols) : GridUploadDone(k, ctx)
    \/ \E id \in Ids(stickers), role \in {"main", "tab"} : SetRole(id, role)
    \/ Remove
    \/ Edit
    \/ Save
    \/ OnClose

SpecRoles == InitRoles /\ [][NextRoles]_vars

(***************************************************************************)
(* SpecExport: exports of prepared collections under every configuration.  *)
(***************************************************************************)
\* Bound: items of the collection being exported.
MaxExportItems == 11

\* The upload of item i: one pixel that tells the items apart.
ItemImage(i) == Image(1, 1, <<Pixel(i, i, i, 255)>>)
Processed(image) == RemoveBackground(image, DefaultMode, DefaultThreshold)

\* A collection of n uploaded and processed items, the item at position odd (if
\* any) left in state st, and the roles given to positions main and tab (0: none).
ExportCollection(n, odd, st, main, tab) ==
    [i \in 1..n |->
        [id |-> i,
         preview |-> ItemImage(i),
         processedBlob |-> IF i = odd /\ ~st.blob THEN Null ELSE Processed(ItemImage(i)),
         status |-> IF i = odd THEN st.status ELSE "done",
         isMain |-> (i = main),
         isTab |-> (i = tab),
         settings |-> [mode |-> DefaultMode, threshold |-> DefaultThreshold]]]

\* What the one item that is not done can be: never processed, failed, or failed
\* after an editor save (the state C5 shows reachable).
OddStates ==
    {[status |-> "pending", blob |-> FALSE], [status |-> "error", blob |-> FALSE],
     [status |-> "error", blob |-> TRUE]}

InitExport ==
    /\ \E n \in 0..MaxExportItems, count \in {8, 16, 24, 32, 40},
          type \in {"standard", "fullscreen"} :
          \E odd \in 0..n, st \in OddStates :
             \E main \in {0, 1, odd, n}, tab \in {0, 1, odd, n} :
                /\ stickers = ExportCollection(n, odd, st, main, tab)
                /\ config = [count |-> count, type |-> type]
                /\ nextId = n + 1
    /\ gridConfig = [rows |-> 4, cols |-> 4]
    /\ editingItem = Null
    /\ isProcessingAll = FALSE
    /\ isExporting = FALSE
    /\ exportProgress = 0
    /\ gridJobs = <<>>
    /\ batch = [pc |-> "idle"]
    /\ exp = [pc |-> "idle"]
    /\ resizeCalls = <<>>
    /\ saved = Null
    /\ notice = "none"
    /\ SessionClosed

NextExport ==
    \/ HandleExport
    \/ \E ctxOk \in BOOLEAN : ExportResize(ctxOk)
    \/ \E ok \in BOOLEAN : ExportArchive(ok)

SpecExport == InitExport /\ [][NextExport]_vars

(***************************************************************************)
(* SpecSession: one uploaded item under batch matting and touch-up         *)
(* sessions with matting re-runs, brush strokes, save and close.           *)
(* Sessions are opened on the item until it is done (Spec opens them on    *)
(* done items too).                                                        *)
(***************************************************************************)
\* Pixels on and next to the thresholds the session uses.
Edge == Pixel(240, 240, 240, 255)
Faint == Pixel(250, 250, 250, 128)
Mixed == Pixel(255, 255, 10, 255)

SessionImages ==
    {Image(3, 1, <<White, Dark, Faint>>), Image(3, 1, <<Edge, Mixed, Clear>>)}

\* The values the threshold slider is moved to.
SessionThresholds == {10, 240}

\* Bounds of SpecSession: matting re-runs and snapshots per session.
MaxAutoRuns == 2
MaxSessionPushes == 3

InitSession ==
    /\ AppMounted
    /\ SessionClosed

NextSession ==
    \/ (nextId = 1 /\ \E img \in SessionImages : HandleFileUpload(<<img>>))
    \/ ProcessAll
    \/ BatchImageLoaded(TRUE)
    \/ BatchBlobReady
    \/ \E i \in 1..Len(stickers) :
          stickers[i].status # "done" /\ MountEditor(stickers[i].id)
    \/ EditorImageLoaded
    \/ (autoCount < MaxAutoRuns /\ \E m \in Modes : ModeClick(m))
    \/ (autoCount < MaxAutoRuns /\ \E val \in SessionThresholds : ThresholdChange(val))
    \/ (pushCount < MaxSessionPushes /\ \E k \in 1..Len(autoRuns) : AutoComplete(k))
    \/ \E t \in {"eraser", "restore"} : SetActiveTool(t)
    \/ HandlePointerDown(0, FALSE, Point(0, 0), {1})
    \/ (pushCount < MaxSessionPushes /\ HandleUp)
    \/ HandleSave
    \/ CloseEditor

SpecSession == InitSession /\ [][NextSession]_vars

(***************************************************************************)
(* SpecProgress: exports of collections of up to forty done items, for the *)
(* progress reported along the way.                                        *)
(***************************************************************************)
\* Bound: items of the collection being exported.
MaxProgressItems == 40

InitProgress ==
    /\ \E n \in 1..MaxProgressItems, count \in {8, 16, 24, 32, 40} :
          /\ stickers = ExportCollection(n, 0, [status |-> "done", blob |-> TRUE], 0, 0)
          /\ config = [count |-> count, type |-> "standard"]
          /\ nextId = n + 1
    /\ gridConfig = [rows |-> 4, cols |-> 4]
    /\ editingItem = Null
    /\ isProcessingAll = FALSE
    /\ isExporting = FALSE
    /\ exportProgress = 0
    /\ gridJobs = <<>>
    /\ batch = [pc |-> "idle"]
    /\ exp = [pc |-> "idle"]
    /\ resizeCalls = <<>>
    /\ saved = Null
    /\ notice = "none"
    /\ SessionClosed

SpecProgress == InitProgress /\ [][NextExport]_vars

(***************************************************************************)
(* Exports of one processed item, over the sizes of its raster.            *)
(***************************************************************************)
SourceImage(w, h) == Image(w, h, [i \in 1..(w * h) |-> Dark])

InitResize ==
    /\ \E w \in 1..MaxSourceSide, h \in 1..MaxSourceSide,
          type \in {"standard", "fullscreen"} :
          /\ stickers = <<CreateStickerItem(1, SourceImage(w, h),
                                            Processed(SourceImage(w, h)))>>
          /\ config = [count |-> 8, type |-> type]
    /\ nextId = 2
    /\ gridConfig = [rows |-> 4, cols |-> 4]
    /\ editingItem = Null
    /\ isProcessingAll = FALSE
    /\ isExporting = FALSE
    /\ exportProgress = 0
    /\ gridJobs = <<>>
    /\ batch = [pc |-> "idle"]
    /\ exp = [pc |-> "idle"]
    /\ resizeCalls = <<>>
    /\ saved = Null
    /\ notice = "none"
    /\ SessionClosed

SpecResize == InitResize /\ [][NextExport]_vars

(***************************************************************************)
(* Grid uploads, over small images and grids.                              *)
(***************************************************************************)
MaxGrid == 2
MaxGridSide == 2
MaxGridItems == 4

\* An image whose pixels tell their positions apart.
GridSource(w, h) ==
    Image(w, h, [k \in 1..(w * h) |->
                    Pixel(((k - 1) % w) + 1, ((k - 1) \div w) + 1, 0, 255)])

\* The App once the user has set the grid inputs (lines 229 and 233).
InitGrid ==
    /\ \E rows \in 1..MaxGrid, cols \in 1..MaxGrid :
          AppState([count |-> 16, type |-> "standard"], [rows |-> rows, cols |-> cols])
    /\ SessionClosed

NextGrid ==
    \/ /\ Committed + gridConfig.rows * gridConfig.cols <= MaxGridItems
       /\ \E w \in 1..MaxGridSide, h \in 1..MaxGridSide :
             HandleGridUpload(GridSource(w, h))
    \/ \E k \in 1..Len(gridJobs) :
          \E ctx \in Contexts(gridJobs[k].rows * gridJobs[k].cols) : GridUploadDone(k, ctx)

SpecGrid == InitGrid /\ [][NextGrid]_vars

(***************************************************************************)
(* Exports of two processed items while the collection goes on changing:   *)
(* uploads, removals, role changes, batch processing and editor saves.     *)
(***************************************************************************)
MaxSnapshotItems == 3

InitSnapshot ==
    /\ \E main \in {0, 1}, tab \in {0, 2} :
          stickers = ExportCollection(2, 0, [status |-> "done", blob |-> TRUE], main, tab)
    /\ config = [count |-> 8, type |-> "standard"]
    /\ nextId = 3
    /\ gridConfig = [rows |-> 1, cols |-> 1]
    /\ editingItem = Null
    /\ isProcessingAll = FALSE
    /\ isExporting = FALSE
    /\ exportProgress = 0
    /\ gridJobs = <<>>
    /\ batch = [pc |-> "idle"]
    /\ exp = [pc |-> "idle"]
    /\ resizeCalls = <<>>
    /\ saved = Null
    /\ notice = "none"
    /\ SessionClosed

\* One export per behaviour; the editor and the batch are started while it runs.
NextSnapshot ==
    \/ (saved = Null /\ notice = "none" /\ HandleExport)
    \/ ExportResize(TRUE)
    \/ ExportArchive(TRUE)
    \/ (nextId <= MaxSnapshotItems /\ HandleFileUpload(<<AppImage>>))
    \/ Remove
    \/ \E id \in Ids(stickers) : SetRole(id, "main")
    \/ (isExporting /\ ProcessAll)
    \/ BatchImageLoaded(TRUE)
    \/ BatchBlobReady
    \/ (isExporting /\ Edit)
    \/ (editingItem # Null /\ OnSave(Transparent(1, 1), "black", DefaultThreshold))
    \/ OnClose

SpecSnapshot == InitSnapshot /\ [][NextSnapshot]_vars

(***************************************************************************)
(* SpecGesture: one touch-up session under pointer gestures with every     *)
(* tool, the middle button and the modifier key.                           *)
(***************************************************************************)
\* Bounds of SpecGesture: snapshots pushed, and how far the view is panned.
MaxGesturePushes == 3
MaxPan == 1

GestureImage == Image(2, 1, <<Dark, White>>)
GesturePoints == {Point(0, 0), Point(1, 1)}
GestureHits == {{1}, {2}}

InitGesture ==
    /\ AppMounted
    /\ SessionMounted(CreateStickerItem(1, GestureImage, Null))

NextGesture ==
    \/ EditorImageLoaded
    \/ (pushCount < MaxGesturePushes /\ \E k \in 1..Len(autoRuns) : AutoComplete(k))
    \/ \E t \in Tools : SetActiveTool(t)
    \/ \E button \in {0, 1}, altKey \in BOOLEAN, client \in GesturePoints,
          hit \in GestureHits : HandlePointerDown(button, altKey, client, hit)
    \/ \E client \in GesturePoints, hit \in GestureHits :
          /\ HandleMove(client, hit)
          /\ pan'.x \in -MaxPan..MaxPan
          /\ pan'.y \in -MaxPan..MaxPan
    \/ (pushCount < MaxGesturePushes /\ HandleUp)

SpecGesture == InitGesture /\ [][NextGesture]_vars

\* C1: in a touch-up session the undo history never holds more than 15 snapshots.
C1_HistoryAtMost15 == Len(history) <= 15

\* C2: after more than 15 pushes with no undo in between, the history holds
\* exactly the most recent snapshots in order, the newest last, and the first
\* snapshot of the session has been evicted.
C2_OldestEvicted ==
    (pushCount > 15 /\ undoCount = 0) =>
        /\ \A i \in DOMAIN history : history[i].seq = pushCount - Len(history) + i
        /\ \A i \in DOMAIN history : history[i].seq # 1


MainCount == Cardinality({i \in 1..Len(stickers) : stickers[i].isMain})
TabCount == Cardinality({i \in 1..Len(stickers) : stickers[i].isTab})

\* The number of items with id that carry the flag: 0 or 1.
HoldsMain(id) ==
    Cardinality({i \in 1..Len(stickers) : stickers[i].id = id /\ stickers[i].isMain})
HoldsTab(id) ==
    Cardinality({i \in 1..Len(stickers) : stickers[i].id = id /\ stickers[i].isTab})

\* C3: in every reachable collection state at most one item has isMain = true
\* and at most one has isTab = true.
C3_RoleExclusive == MainCount <= 1 /\ TabCount <= 1

C5_BlobIffDone ==
    \A i \in 1..Len(stickers) :
       (stickers[i].processedBlob # Null) <=> (stickers[i].status = "done")

\* The status changes the specification lists.
ListedChanges ==
    {<<"pending", "processing">>, <<"processing", "done">>, <<"processing", "error">>,
     <<"done", "processing">>, <<"error", "processing">>}

\* The status change of every item that is in the collection before and after a step.
StatusChanges ==
    {<<stickers[i].status, stickers'[j].status>> :
        <<i, j>> \in {p \in (1..Len(stickers)) \X (1..Len(stickers')) :
                         /\ stickers[p[1]].id = stickers'[p[2]].id
                         /\ stickers[p[1]].status # stickers'[p[2]].status}}

\* C7 as stated: an item's status only ever changes pending -> processing,
\* processing -> done, processing -> error, done -> processing or
\* error -> processing.
C7_OnlyListedChanges == [][StatusChanges \subseteq ListedChanges]_vars

\* C7 amended: besides the listed changes, an editor save moves an item to
\* 'done' from any status, and a matting failure that arrives after such a save
\* moves it done -> error; no other change happens (no item returns to
\* 'pending' or goes pending -> error, and outside an editor save 'done' is
\* reached only from 'processing').
C7_ChangesWithSave ==
    [][/\ StatusChanges \subseteq
             ListedChanges \cup {<<"pending", "done">>, <<"error", "done">>,
                                 <<"done", "error">>}
       /\ (StatusChanges \cap {<<"pending", "done">>, <<"error", "done">>} # {}
             => editingItem # Null /\ editingItem' = Null)]_vars

\* C7 witness: an item saved from the editor while being processed has then
\* been marked 'error' by the failing run (done -> error).
C7_Witness ==
    \E i \in 1..Len(stickers) :
       /\ stickers[i].status = "error"
       /\ stickers[i].processedBlob # Null
       /\ stickers[i].settings.mode = "black"

\* A step in which the processing of the batch's current item fails.
BatchFailure == BatchImageFailed \/ BatchImageLoaded(FALSE)

\* C8: when processing one item of a batch fails, that item's status becomes
\* 'error', no other item is changed, and the batch goes on with the remaining
\* non-done items (or ends when there are none).
C8_FailureContained ==
    [][BatchFailure =>
         LET failed == batch.snap[batch.pos].id
             rest == NextNotDone(batch.snap, batch.pos + 1)
         IN  /\ Len(stickers') = Len(stickers)
             /\ \A i \in 1..Len(stickers) :
                   IF stickers[i].id = failed
                   THEN stickers'[i].status = "error"
                   ELSE \/ stickers'[i] = stickers[i]
                        \/ /\ rest # 0
                           /\ stickers[i].id = batch.snap[rest].id
                           /\ stickers'[i] = [stickers[i] EXCEPT !.status = "processing"]
             /\ IF rest = 0
                THEN batch'.pc = "idle" /\ ~isProcessingAll'
                ELSE batch'.pc = "load" /\ batch'.pos = rest]_vars

\* C6: every raster handed to the resize step by handleExport, including the
\* ones resolved as main image and as tab image, belongs to an item whose
\* status is 'done'.
C6_ExportReadsDoneOnly ==
    \A k \in DOMAIN resizeCalls : resizeCalls[k].item.status = "done"

\* The two-digit names of the spec, written out.
TwoDigit ==
    <<"01", "02", "03", "04", "05", "06", "07", "08", "09", "10", "11", "12", "13">>

\* C9: a successful export holds exactly min(done items, config.count) sticker
\* files, the i-th made from the i-th done item of the collection and named
\* with its two-digit number, then exactly one main.png and one tab.png.
C9_ExportFiles ==
    saved # Null =>
        LET done == DoneStickers(stickers)
            n == IF Len(done) < config.count THEN Len(done) ELSE config.count
            files == saved.files
        IN  /\ saved.exportCount = n
            /\ Len(files) = n + 2
            /\ \A i \in 1..n :
                  /\ files[i].name = TwoDigit[i] \o ".png"
                  /\ files[i].data.source = done[i].processedBlob
            /\ files[n + 1].name = "main.png"
            /\ files[n + 2].name = "tab.png"

\* An export of ten done items, the first item of the collection not among
\* them, under a count the collection does not reach.
C9_Witness ==
    /\ saved # Null
    /\ Len(stickers) = 11
    /\ stickers[1].status = "pending"
    /\ config.count = 16
    /\ Len(saved.files) = 12

\* C10: every sticker file of an export is 370x320 (standard) or 480x480
\* (fullscreen), main.png is 240x240 (standard) or 480x480 (fullscreen), and
\* tab.png is 96x74.
C10_ExportSizes ==
    saved # Null =>
        \A k \in DOMAIN saved.files :
            LET f == saved.files[k]
                standard == config.type = "standard"
            IN  IF f.name = "tab.png" THEN f.data.w = 96 /\ f.data.h = 74
                ELSE IF f.name = "main.png"
                THEN f.data.w = (IF standard THEN 240 ELSE 480) /\ f.data.h = f.data.w
                ELSE /\ f.data.w = (IF standard THEN 370 ELSE 480)
                     /\ f.data.h = (IF standard THEN 320 ELSE 480)

\* A standard export with sticker files next to main.png and tab.png.
C10_Witness ==
    /\ saved # Null
    /\ config.type = "standard"
    /\ Len(saved.files) > 3

\* C11: an export called while no item has status 'done' is refused at once:
\* the refusal is shown, no resize is run, nothing is built or saved, and
\* isExporting, exportProgress and the collection stay as they are.
C11_NoDoneNoEffects ==
    [][(HandleExport /\ \A i \in 1..Len(stickers) : stickers[i].status # "done")
       => /\ notice' = "no done items"
          /\ UNCHANGED <<stickers, config, isExporting, exportProgress, exp,
                         resizeCalls, saved>>]_vars

\* An export of a collection with items, none of them done, has been refused.
C11_Witness ==
    /\ notice = "no done items"
    /\ Len(stickers) > 0
    /\ \A i \in 1..Len(stickers) : stickers[i].status # "done"

\* A step of an export in which a resize or the archive generation fails.
ExportStepFails ==
    \/ ExportResize(FALSE)
    \/ (exp.pc = "resize" /\ ResizeJob(exp, exp.i + 1).item.processedBlob = Null
           /\ ExportResize(TRUE))
    \/ ExportArchive(FALSE)

\* C12: when a resize or the archive step of an export fails, the export stops
\* there: nothing is handed to the file-save trigger, the failure is reported,
\* and exportProgress is 0 and isExporting false.
C12_FailureAborts ==
    [][ExportStepFails
       => /\ exp'.pc = "idle"
          /\ saved = Null /\ saved' = Null
          /\ notice' = "export error"
          /\ exportProgress' = 0
          /\ isExporting' = FALSE]_vars

\* An export has failed after at least one artifact had been resized.
C12_Witness ==
    /\ notice = "export error"
    /\ Len(resizeCalls) >= 2
    /\ exportProgress = 0
    /\ ~isExporting

\* C13: during an export every resized artifact raises the reported progress,
\* and after the k-th artifact the progress is 100*k/(exportCount+2) rounded to
\* the nearest integer (a half rounding up), and 100 after tab.png.
C13_ProgressSteps ==
    [][(ExportResize(TRUE) /\ exp'.pc # "idle")
       => LET k == exp'.i
              parts == exp.exportCount + 2
          IN  /\ exportProgress' > exportProgress
              /\ exportProgress' = IF k = parts THEN 100
                                   ELSE (200 * k + parts) \div (2 * parts)]_vars

\* What C14 says of one pixel: alpha 0 exactly for the pixels the mode and the
\* threshold select, everything else as it was.
Classified(p, q, m, t) ==
    LET selected == \/ (m = "white" /\ p.r > t /\ p.g > t /\ p.b > t)
                    \/ (m = "black" /\ p.r < t /\ p.g < t /\ p.b < t)
    IN  /\ q.r = p.r /\ q.g = p.g /\ q.b = p.b
        /\ q.a = IF selected THEN 0 ELSE p.a

SameSizeClassified(src, out, m, t) ==
    /\ out.w = src.w
    /\ out.h = src.h
    /\ DOMAIN out.px = DOMAIN src.px
    /\ \A i \in DOMAIN src.px : Classified(src.px[i], out.px[i], m, t)

\* C14: removeBackground treats each pixel on its own: under 'white' the alpha
\* becomes 0 iff r, g and b are all above the threshold, under 'black' iff all
\* are below it, under 'none' never; colour channels and the alpha of the other
\* pixels stay as they are (in the session's runs and in the batch's).
C14_Classifier ==
    [][/\ \A k \in 1..Len(autoRuns) :
             AutoComplete(k)
             => SameSizeClassified(originalImage, canvas', autoRuns[k].m, autoRuns[k].t)
       /\ BatchBlobReady
          => LET it == batch.snap[batch.pos]
             IN  \A i \in 1..Len(stickers') :
                    stickers'[i].id = it.id
                    => SameSizeClassified(it.preview, stickers'[i].processedBlob,
                                          it.settings.mode, it.settings.threshold)]_vars

\* A 'black' run at threshold 240 has completed on the image whose pixels sit on
\* the threshold (kept), above it in two channels only (kept) and at zero alpha.
C14_Witness ==
    /\ originalImage = Image(3, 1, <<Edge, Mixed, Clear>>)
    /\ mode = "black"
    /\ threshold = 240
    /\ autoCount >= 1
    /\ autoRuns = <<>>
    /\ canvas = Image(3, 1, <<Edge, Mixed, Clear>>)

\* C15: a completed matting run leaves removeBackground(original, mode,
\* threshold) of its own mode and threshold, whatever runs and brush strokes
\* came before: in the session on the canvas, with exactly one new snapshot (of
\* that raster) in the history; in the batch as the item's processed raster.
C15_DerivedFromOriginal ==
    [][/\ \A k \in 1..Len(autoRuns) :
             AutoComplete(k)
             => /\ canvas' = RemoveBackground(item.preview, autoRuns[k].m, autoRuns[k].t)
                /\ Cardinality({i \in DOMAIN history' : history'[i].seq > pushCount}) = 1
                /\ history'[Len(history')] = Snapshot(canvas', pushCount + 1)
       /\ BatchBlobReady
          => LET it == batch.snap[batch.pos]
             IN  \A i \in 1..Len(stickers') :
                    stickers'[i].id = it.id
                    => stickers'[i].processedBlob
                         = RemoveBackground(stickers[i].preview, it.settings.mode,
                                            it.settings.threshold)]_vars

\* A re-run has completed after an eraser stroke that is still in the history:
\* the canvas is the matting of the original, the erased pixel is back.
C15_Witness ==
    /\ item # Null
    /\ originalImage # Null
    /\ autoCount >= 1
    /\ autoRuns = <<>>
    /\ canvas = RemoveBackground(originalImage, mode, threshold)
    /\ canvas.px[1] # Clear
    /\ \E i \in DOMAIN history : history[i].data.px[1] = Clear

\* C16: a save replaces, in one update of the collection, the edited item's
\* processed raster and its settings (mode, threshold) and makes it 'done'; its
\* id, source and role flags and every other item stay as they were. Closing
\* the session without saving leaves the collection unchanged.
C16_SaveIsAtomicAndFramed ==
    [][/\ \A blob \in (IF editingItem = Null THEN {}
                       ELSE SessionOutputs(editingItem, "black", DefaultThreshold)) :
             OnSave(blob, "black", DefaultThreshold)
             => /\ Len(stickers') = Len(stickers)
                /\ \A i \in 1..Len(stickers) :
                      IF stickers[i].id = editingItem.id
                      THEN /\ stickers'[i].processedBlob = blob
                           /\ stickers'[i].settings
                                = [mode |-> "black", threshold |-> DefaultThreshold]
                           /\ stickers'[i].status = "done"
                           /\ stickers'[i].id = stickers[i].id
                           /\ stickers'[i].preview = stickers[i].preview
                           /\ stickers'[i].isMain = stickers[i].isMain
                           /\ stickers'[i].isTab = stickers[i].isTab
                      ELSE stickers'[i] = stickers[i]
       /\ OnClose => stickers' = stickers]_vars

\* A session has saved one of two items: it is done with the saved settings
\* while the other item is still pending with the settings it was created with.
C16_Witness ==
    /\ editingItem = Null
    /\ Len(stickers) = 2
    /\ \E i, j \in 1..2 :
          /\ i # j
          /\ stickers[i].status = "done"
          /\ stickers[i].settings.mode = "black"
          /\ stickers[j].status = "pending"
          /\ stickers[j].settings.mode = DefaultMode

\* C17: every file resizeToLineSpec makes is a canvas of exactly its target
\* size, and the source is drawn on it no wider than targetW - 2*padding and no
\* higher than targetH - 2*padding (padding 10), whatever the source size.
C17_ResizeContained ==
    saved # Null =>
        \A k \in DOMAIN saved.files :
            LET d == saved.files[k].data
            IN  /\ <<d.w, d.h>> \in TargetSizes
                /\ ~Exceeds(Drawn(d).drawW, d.w - Padding * 2)
                /\ ~Exceeds(Drawn(d).drawH, d.h - Padding * 2)

\* C18: a grid upload of an image gets exactly rows*cols images from
\* cropImageGrid, in row-major order: the image at position r*cols + c has the
\* size (width/cols, height/rows) and holds the source from
\* (c*width/cols, r*height/rows) on, so that the cells tile the source.
C18_GridComplete ==
    [][\A k \in 1..Len(gridJobs) :
          \A ctx \in Contexts(gridJobs[k].rows * gridJobs[k].cols) :
             GridUploadDone(k, ctx)
             => LET job == gridJobs[k]
                    base == Len(stickers)
                IN  /\ Len(stickers') = base + job.rows * job.cols
                    /\ \A r \in 0..(job.rows - 1), c \in 0..(job.cols - 1) :
                          LET cell == stickers'[base + r * job.cols + c + 1].preview
                          IN  /\ cell.w * job.cols = job.image.w
                              /\ cell.h * job.rows = job.image.h
                              /\ \A x \in 0..(cell.w - 1), y \in 0..(cell.h - 1) :
                                    cell.px[y * cell.w + x + 1]
                                      = job.image.px[(r * cell.h + y) * job.image.w
                                                     + c * cell.w + x + 1]]_vars

\* C19: in a session that has pushed a snapshot, whenever no brush gesture and
\* no matting run is in flight, historyIdx is a valid index of the history
\* (0 <= historyIdx < length) and the snapshot at historyIdx is the raster on
\* the canvas (so that one undo steps back exactly one committed edit).
C19_IndexOnCurrentRaster ==
    (item # Null /\ pushCount >= 1 /\ ~isDrawing /\ autoRuns = <<>>)
    => /\ 0 <= historyIdx
       /\ historyIdx < Len(history)
       /\ history[historyIdx + 1].data = canvas

\* An item that a session saved after the running batch had closed over the
\* list: its settings are no longer those of the batch's copy.
SavedSinceBatchStart(s) ==
    /\ batch.pc \in {"load", "blob"}
    /\ s.status = "done"
    /\ \E j \in DOMAIN batch.snap :
          batch.snap[j].id = s.id /\ batch.snap[j].settings # s.settings

\* C20: no step of a processAll batch that was running when a session saved an
\* item changes that item: its processed raster stays the saved one, with the
\* saved settings and status 'done'.
C20_SaveSurvivesBatch ==
    [][(BatchBlobReady \/ \E ctxOk \in BOOLEAN : BatchImageLoaded(ctxOk))
       => \A i \in 1..Len(stickers) :
             SavedSinceBatchStart(stickers[i]) => stickers'[i] = stickers[i]]_vars

\* C21: every started processAll batch eventually completes: isProcessingAll
\* returns to false, and then no item is left in 'processing', whatever the
\* decode outcome of each item.
C21_BatchCompletes ==
    isProcessingAll
    ~> (~isProcessingAll /\ \A i \in 1..Len(stickers) : stickers[i].status # "processing")

\* C22: once every matting run of a session has completed (the one of the mount
\* and autoCount requested ones, each with its one snapshot), and no brush edit
\* was made, the canvas is removeBackground(original, mode, threshold) for the
\* mode and threshold the session shows and Save would emit (those of the most
\* recently requested run).
C22_LatestRequestWins ==
    (/\ item # Null
     /\ originalImage # Null
     /\ autoRuns = <<>>
     /\ autoCount >= 1
     /\ pushCount = autoCount + 1
     /\ ~isDrawing)
    => canvas = RemoveBackground(originalImage, mode, threshold)

\* C23 as stated: the history index is never below 0 in a session.
C23_IndexNeverBelowZero == item # Null => historyIdx >= 0

\* C23, amended: the index is -1 exactly while the session has pushed no
\* snapshot (the history is then empty) and at least 0 afterwards; an undo
\* never moves it below 0, and an undo at index 0 (or -1) changes neither the
\* history nor the index nor the canvas.
C23_UndoStopsAtZero ==
    /\ [](item # Null => /\ historyIdx >= -1
                         /\ (historyIdx = -1 <=> pushCount = 0)
                         /\ (historyIdx = -1 => history = <<>>))
    /\ [][HandleUndo => /\ historyIdx' >= Min(historyIdx, 0)
                        /\ (historyIdx <= 0
                            => UNCHANGED <<history, historyIdx, canvas>>)]_vars

\* Two undos have brought the index back to 0, where undo stops.
C23_Witness == item # Null /\ undoCount = 2 /\ historyIdx = 0 /\ Len(history) >= 3

\* The session has undone to an index that is not at the tail of its history.
NotAtTail ==
    /\ item # Null
    /\ undoCount >= 1
    /\ Len(history) <= HistoryLimit
    /\ 0 <= historyIdx
    /\ historyIdx < Len(history) - 1

\* C24: a snapshot pushed after an undo to index k discards the redo tail: the
\* history becomes the former snapshots 0..k followed by the new snapshot (of
\* the raster then on the canvas) and the index becomes k+1.
C24_PushDiscardsRedoTail ==
    [][(NotAtTail /\ pushCount' = pushCount + 1)
       => /\ history' = Append(SubSeq(history, 1, historyIdx + 1),
                               Snapshot(canvas', pushCount'))
          /\ historyIdx' = historyIdx + 1]_vars

\* The ids of the items of a list that are in status st.
IdsInStatus(list, st) == {list[i].id : i \in {k \in 1..Len(list) : list[k].status = st}}

\* C25: at most one item is 'processing' at any time, and the batch works in
\* collection order: when an item enters 'processing' it is the batch's current
\* item, and every earlier item of the batch that was not done when the batch
\* started, and is still in the collection, is 'done' or 'error'.
C25_OneAtATimeInOrder ==
    /\ [](Cardinality(IdsInStatus(stickers, "processing")) <= 1)
    /\ [][\A id \in IdsInStatus(stickers', "processing") \ IdsInStatus(stickers, "processing") :
             /\ batch'.pc = "load"
             /\ batch'.snap[batch'.pos].id = id
             /\ \A j \in 1..(batch'.pos - 1) :
                   batch'.snap[j].status # "done"
                   => batch'.snap[j].id \notin
                         (Ids(stickers') \ (IdsInStatus(stickers', "done")
                                            \cup IdsInStatus(stickers', "error")))]_vars

\* The batch has reached its second item after the first one ended in 'done'
\* or 'error'.
C25_Witness ==
    /\ isProcessingAll
    /\ Len(stickers) = 2
    /\ batch.pc \in {"load", "blob"}
    /\ batch.pos = 2
    /\ batch.snap[1].status # "done"
    /\ stickers[1].status \in {"done", "error"}
    /\ stickers[2].status = "processing"

\* The k-th artifact of the export e as the collection snapshot of its
\* invocation determines it, and the archive after the first n of them.
SnapshotFile(e, k) ==
    IF k <= e.exportCount
    THEN [name |-> StickerFileName(k - 1),
          data |-> ResizeToLineSpec(e.doneStickers[k].processedBlob, e.targetW, e.targetH)]
    ELSE IF k = e.exportCount + 1
    THEN [name |-> "main.png",
          data |-> ResizeToLineSpec(e.mainItem.processedBlob, e.mainSize, e.mainSize)]
    ELSE [name |-> "tab.png",
          data |-> ResizeToLineSpec(e.tabItem.processedBlob, TabW, TabH)]

SnapshotZip(e, n) == [k \in 1..n |-> SnapshotFile(e, k)]

\* C26: an export works on the collection as it was when it was invoked: the
\* done items, the main and the tab item it took then stay its own while its
\* resizes are in flight, every artifact is made from them in their order and
\* under their names whatever happens to the collection meanwhile, and the
\* saved archive holds exactly these artifacts.
C26_ExportOnSnapshot ==
    /\ [](exp.pc \in {"resize", "archive"} => exp.zip = SnapshotZip(exp, exp.i))
    /\ [][/\ (HandleExport /\ exp'.pc = "resize")
             => /\ exp'.doneStickers = DoneStickers(stickers)
                /\ exp'.mainItem \in {stickers[i] : i \in 1..Len(stickers)}
                /\ exp'.tabItem \in {stickers[i] : i \in 1..Len(stickers)}
          /\ (exp.pc # "idle" /\ exp'.pc # "idle")
             => /\ exp'.doneStickers = exp.doneStickers
                /\ exp'.mainItem = exp.mainItem
                /\ exp'.tabItem = exp.tabItem
                /\ exp'.exportCount = exp.exportCount
          /\ ExportArchive(TRUE)
             => saved'.files = SnapshotZip(exp, exp.exportCount + 2)]_vars

\* An export was saved although, while it ran, one of the items it had taken
\* was removed from the collection.
C26_Witness ==
    /\ saved # Null
    /\ \E k \in DOMAIN saved.files :
          \A i \in 1..Len(stickers) :
             stickers[i].processedBlob # saved.files[k].data.source

\* C27: pointer-down enters the panning gesture when the tool is 'move', the
\* middle button is pressed or the modifier key is held, and the drawing
\* gesture otherwise; pointer-up pushes exactly one snapshot, of the current
\* raster, if a drawing gesture was active and none otherwise, and clears both
\* gesture flags; a move or a release of a panning gesture changes the pan
\* offset by the raw pointer delta and neither the raster nor the history.
C27_Gestures ==
    [][/\ \A button \in {0, 1}, altKey \in BOOLEAN, client \in GesturePoints,
             hit \in GestureHits :
             HandlePointerDown(button, altKey, client, hit)
                => /\ IF activeTool = "move" \/ button = 1 \/ altKey
                      THEN isPanning' /\ isDrawing' = isDrawing /\ canvas' = canvas
                      ELSE isDrawing' /\ isPanning' = isPanning
                   /\ history' = history /\ historyIdx' = historyIdx /\ pan' = pan
       /\ HandleUp
             => /\ ~isDrawing' /\ ~isPanning'
                /\ canvas' = canvas /\ pan' = pan
                /\ IF isDrawing
                   THEN /\ pushCount' = pushCount + 1
                        /\ history' # <<>>
                        /\ history'[Len(history')] = Snapshot(canvas, pushCount + 1)
                        /\ \A i \in 1..(Len(history') - 1) :
                              \E j \in 1..Len(history) : history'[i] = history[j]
                   ELSE /\ pushCount' = pushCount
                        /\ history' = history /\ historyIdx' = historyIdx
       /\ \A client \in GesturePoints, hit \in GestureHits :
             (isPanning /\ HandleMove(client, hit))
                => /\ canvas' = canvas
                   /\ history' = history /\ historyIdx' = historyIdx
                   /\ pan'.x - pan.x = client.x - lastMousePos.x
                   /\ pan'.y - pan.y = client.y - lastMousePos.y]_vars

\* A stroke was committed with the eraser and the view was panned with it selected.
C27_Witness ==
    /\ item # Null /\ activeTool = "eraser" /\ ~isDrawing /\ ~isPanning
    /\ pan # Point(0, 0) /\ lastMousePos = Point(1, 1)
    /\ pushCount >= 2 /\ autoRuns = <<>>
    /\ canvas # RemoveBackground(originalImage, mode, threshold)

=========================================================================
